---- MODULE Spec2Model ----
(***************************************************************************)
(* prepvideo: encode-parameter model, loudness measurement parsing and the *)
(* sequential ffmpeg pipeline (concatenate, probe, analyze, pass 1,        *)
(* pass 2, strip metadata).                                                *)
(*                                                                         *)
(* Machine integers wider than the model checker's own are kept as         *)
(* little-endian sequences of base-256 limbs ("Big"), so that the u64/u32  *)
(* arithmetic of video.rs and the i32 arithmetic of main.rs can be         *)
(* compared with the mathematical integers.                                *)
(***************************************************************************)
EXTENDS Integers, Sequences, FiniteSets, TLC

VARIABLES
    \* ---- the pipeline (main.rs) ----
    pc,          \* position of the single thread of control
    build,       \* build profile of the binary: "debug" | "release"
    argv,        \* command line after the binary name
    dir,         \* regular files of the current directory
    input_file,  \* main: input_file
    xres,        \* main: xres
    fps,         \* main: fps
    loudnorm,    \* main: loudnorm (the measurement), NoLoudnorm before it exists
    log,         \* external invocations issued so far, in order
    running,     \* indices into log of invocations that have not returned
    returns,     \* exit status and captured text of each returned invocation, by index into log
    operation,   \* the Operation record of the Operation-based orchestrator
    \* ---- the measurement parser on its own ----
    entries,     \* the key/value lines the analyzer has printed so far
    data,        \* diagnostic text handed to from_analyze_data
    parsed,      \* what from_analyze_data returned for it
    \* ---- the parameter model on its own ----
    vin,         \* inputs of the parameter computation
    vout         \* its outputs (video.rs and main.rs variants)

pipeVars == <<pc, build, argv, dir, input_file, xres, fps, loudnorm, log, running, returns, operation>>
parseVars == <<entries, data, parsed>>
paramVars == <<vin, vout>>
vars == <<pipeVars, parseVars, paramVars>>

-----------------------------------------------------------------------------
(* Unbounded naturals as little-endian base-256 limb sequences, no leading *)
(* zero limb; << >> is zero.                                                *)

Limb == 2^8

RECURSIVE BigNorm(_)
BigNorm(a) ==
    IF a = << >> THEN << >>
    ELSE IF a[Len(a)] = 0 THEN BigNorm(SubSeq(a, 1, Len(a) - 1))
    ELSE a

RECURSIVE BigOf(_)
BigOf(n) == IF n = 0 THEN << >> ELSE <<n % Limb>> \o BigOf(n \div Limb)

RECURSIVE BigToInt(_)
BigToInt(a) == IF a = << >> THEN 0 ELSE Head(a) + Limb * BigToInt(Tail(a))

RECURSIVE BigAddC(_, _, _)
BigAddC(a, b, c) ==
    IF a = << >> /\ b = << >> THEN BigOf(c)
    ELSE LET x == IF a = << >> THEN 0 ELSE Head(a)
             y == IF b = << >> THEN 0 ELSE Head(b)
             t == x + y + c
         IN  <<t % Limb>> \o BigAddC(IF a = << >> THEN a ELSE Tail(a),
                                     IF b = << >> THEN b ELSE Tail(b),
                                     t \div Limb)

BigAdd(a, b) == BigNorm(BigAddC(a, b, 0))

RECURSIVE BigMulC(_, _, _)
BigMulC(a, m, c) ==
    IF a = << >> THEN BigOf(c)
    ELSE LET t == Head(a) * m + c
         IN  <<t % Limb>> \o BigMulC(Tail(a), m, t \div Limb)

\* a * m for a small m (m < 2^23)
BigMulSmall(a, m) == BigNorm(BigMulC(a, m, 0))

RECURSIVE BigMul(_, _)
BigMul(a, b) ==
    IF b = << >> \/ a = << >> THEN << >>
    ELSE LET rest == BigMul(a, Tail(b))
         IN  BigAdd(BigMulSmall(a, Head(b)),
                    IF rest = << >> THEN rest ELSE <<0>> \o rest)

\* floor(a / d) and a mod d for a small d (0 < d < 2^23)
RECURSIVE BigDivRem(_, _)
BigDivRem(a, d) ==
    IF a = << >> THEN [q |-> << >>, r |-> 0]
    ELSE LET hi == BigDivRem(Tail(a), d)
             t  == hi.r * Limb + Head(a)
         IN  [q |-> BigNorm(<<t \div d>> \o hi.q), r |-> t % d]

BigDiv(a, d) == BigDivRem(a, d).q

RECURSIVE BigLtFrom(_, _, _)
BigLtFrom(a, b, i) ==
    IF i = 0 THEN FALSE
    ELSE IF a[i] # b[i] THEN a[i] < b[i]
    ELSE BigLtFrom(a, b, i - 1)

BigLt(a, b) ==
    IF Len(a) # Len(b) THEN Len(a) < Len(b) ELSE BigLtFrom(a, b, Len(a))

BigLe(a, b) == a = b \/ BigLt(a, b)

\* the low k limbs: a mod 256^k
BigTrunc(a, k) == BigNorm(SubSeq(a, 1, IF Len(a) < k THEN Len(a) ELSE k))

\* decimal digits of a, as format!("{}", a) prints them
RECURSIVE BigDigits(_)
BigDigits(a) ==
    IF a = << >> THEN ""
    ELSE LET qr == BigDivRem(a, 10) IN BigDigits(qr.q) \o ToString(qr.r)

BigToString(a) == IF a = << >> THEN "0" ELSE BigDigits(a)

-----------------------------------------------------------------------------
(* Machine arithmetic.  An overflowing multiplication panics in a build    *)
(* with overflow checks ("debug") and wraps in one without ("release").    *)

Panicked == [panic |-> TRUE]

\* a product p reduced to `limbs` bytes: kept when it fits, else a panic or
\* the wrapped value
UnsignedChecked(p, limbs, bld) ==
    IF Len(p) <= limbs THEN [panic |-> FALSE, v |-> p]
    ELSE IF bld = "debug" THEN Panicked
    ELSE [panic |-> FALSE, v |-> BigTrunc(p, limbs)]

\* u64 * u64
U64Mul(a, b, bld) == UnsignedChecked(BigMul(a, b), 8, bld)

\* u32 * u32
U32Mul(a, b, bld) == UnsignedChecked(BigMul(a, b), 4, bld)

\* |a| of an i32 as a Big
BigOfAbs(a) == IF a >= 0 THEN BigOf(a) ELSE BigAdd(BigOf(-(a + 1)), <<1>>)

\* the i32 that the two's complement bit pattern (hi, lo), two 16-bit halves, stands for
I32OfHalves(hi, lo) ==
    IF hi < 32768 THEN hi * 65536 + lo ELSE (hi - 65536) * 65536 + lo

\* the i32 congruent to (IF neg THEN -p ELSE p) modulo 2^32
I32Wrap(neg, p) ==
    LET l(i) == IF i <= Len(p) THEN p[i] ELSE 0
        lo == l(1) + Limb * l(2)
        hi == l(3) + Limb * l(4)
    IN  IF ~neg THEN I32OfHalves(hi, lo)
        ELSE IF lo = 0 THEN I32OfHalves((65536 - hi) % 65536, 0)
        ELSE I32OfHalves(65535 - hi, 65536 - lo)

\* whether the magnitude p, negated when neg, is an i32
FitsI32(neg, p) ==
    \/ Len(p) <= 3
    \/ Len(p) = 4 /\ p[4] < 128
    \/ neg /\ p = <<0, 0, 0, 128>>

\* a signed product of magnitude p: kept when it fits, else a panic or the
\* wrapped value
I32Checked(neg, p, bld) ==
    IF FitsI32(neg /\ p # << >>, p) \/ bld # "debug"
    THEN [panic |-> FALSE, v |-> I32Wrap(neg /\ p # << >>, p)]
    ELSE Panicked

\* i32 * i32
I32Mul(a, b, bld) == I32Checked((a < 0) # (b < 0), BigMul(BigOfAbs(a), BigOfAbs(b)), bld)

\* r * b for the outcome r of an earlier multiplication
I32MulThen(r, b, bld) == IF r.panic THEN r ELSE I32Mul(r.v, b, bld)
U64MulThen(r, b, bld) == IF r.panic THEN r ELSE U64Mul(r.v, b, bld)

\* i32 / i32 for a positive divisor: Rust's division truncates toward zero
I32Div(a, b) ==
    IF a >= 0 THEN a \div b
    ELSE IF a > -b THEN 0
    ELSE -(((-(a + b)) \div b) + 1)

-----------------------------------------------------------------------------
(* video.rs: the parameter model of the Operation-based program.           *)

VCodec == {"Copy", "Vp9", "Av1"}
Quality == {"VeryLow", "Low", "Medium", "High", "VeryHigh"}

\* compression_factor with the AV1 ratio inverted (70/100 for 100/70)
compression_factor_inverted(codec, quality) ==
    LET factor == CASE quality = "VeryLow"  -> 4600
                    [] quality = "Low"      -> 3200
                    [] quality = "Medium"   -> 1500
                    [] quality = "High"     -> 640
                    [] quality = "VeryHigh" -> 280
    IN  CASE codec = "Copy" -> factor
          [] codec = "Vp9"  -> factor
          [] codec = "Av1"  -> (factor * 70) \div 100

\* compression_factor with the Low and VeryLow table entries exchanged
compression_factor_swapped(codec, quality) ==
    LET factor == CASE quality = "VeryLow"  -> 3200
                    [] quality = "Low"      -> 4600
                    [] quality = "Medium"   -> 1500
                    [] quality = "High"     -> 640
                    [] quality = "VeryHigh" -> 280
    IN  CASE codec = "Copy" -> factor
          [] codec = "Vp9"  -> factor
          [] codec = "Av1"  -> (factor * 100) \div 70

compression_factor(codec, quality) ==
    LET factor == CASE quality = "VeryLow"  -> 4600
                    [] quality = "Low"      -> 3200
                    [] quality = "Medium"   -> 1500
                    [] quality = "High"     -> 640
                    [] quality = "VeryHigh" -> 280
    IN  CASE codec = "Copy" -> factor
          [] codec = "Vp9"  -> factor
          [] codec = "Av1"  -> (factor * 100) \div 70

\* u / d in u64; a zero divisor panics
U64DivThen(r, d) ==
    IF r.panic \/ d = 0 THEN Panicked ELSE [panic |-> FALSE, v |-> BigDiv(r.v, d)]

\* 24 * x as u64 * y as u64 * fps.0 as u64 / fps.1 as u64, left to right
uncompressed_bitrate(fps_, x, y, bld) ==
    U64DivThen(U64MulThen(U64MulThen(U64Mul(BigOf(24), BigOf(x), bld), BigOf(y), bld),
                          BigOf(fps_[1]), bld),
               fps_[2])

tile_columns(x) ==
    IF x < 640 THEN 0 ELSE IF x < 1024 THEN 1 ELSE IF x < 2560 THEN 2 ELSE 3

\* bitrate with the two products bitrate * 50 and bitrate * 145
U32Rates(bitrate, m50, m145) ==
    IF m50.panic \/ m145.panic THEN Panicked
    ELSE [panic |-> FALSE, bitrate |-> bitrate,
          minrate |-> BigDiv(m50.v, 100), maxrate |-> BigDiv(m145.v, 100)]

\* format!("{}", bitrate * 50 / 100) and bitrate * 145 / 100, in u32
U32RatesOf(bitrate, bld) ==
    U32Rates(bitrate, U32Mul(bitrate, BigOf(50), bld), U32Mul(bitrate, BigOf(145), bld))

\* (uncompressed_bitrate / compression_factor as u64) as u32, then the rates
VideoRatesFrom(u, cf, bld) ==
    IF u.panic THEN Panicked ELSE U32RatesOf(BigTrunc(BigDiv(u.v, cf), 4), bld)

\* bitrate, minrate and maxrate as vp9_or_av1 computes them
VideoRates(op, bld) ==
    VideoRatesFrom(uncompressed_bitrate(op.video_fps, op.scale[1], op.scale[2], bld),
                   compression_factor(op.video_codec, op.video_quality), bld)

\* the arguments vp9_or_av1 appends for the rates r
Vp9OrAv1Args(r, op) ==
    IF r.panic THEN Panicked
    ELSE [panic |-> FALSE,
          args |-> (CASE op.video_codec = "Copy" -> << >>
                      [] op.video_codec = "Vp9"  -> <<"-c:v", "libvpx-vp9", "-quality", "good">>
                      [] op.video_codec = "Av1"  -> <<"-c:v", "libaom-av1", "-strict", "-2">>)
                   \o <<"-b:v", BigToString(r.bitrate),
                        "-minrate", BigToString(r.minrate),
                        "-maxrate", BigToString(r.maxrate),
                        "-tile-columns", ToString(tile_columns(op.scale[1])),
                        "-g", "240",
                        "-threads", ToString(16),
                        "-crf", ToString(31)>>]

\* the arguments vp9_or_av1 appends to the command
vp9_or_av1(op, bld) == Vp9OrAv1Args(VideoRates(op, bld), op)

\* audio.rs: opus bitrate in kbps
opus(quality) ==
    LET bitrate == CASE quality = "VeryLow"  -> 16
                     [] quality = "Low"      -> 24
                     [] quality = "Medium"   -> 32
                     [] quality = "High"     -> 64
                     [] quality = "VeryHigh" -> 96
    IN  <<"-c:a", "libopus", "-b:a", ToString(bitrate) \o "k">>

-----------------------------------------------------------------------------
(* main.rs: the parameter model of the command-line program, in i32.       *)

\* format!("{}", n) of an i32
I32ToString(n) ==
    IF n >= 0 THEN ToString(n)
    ELSE IF n = -2147483647 - 1 THEN "-2147483648"
    ELSE "-" \o ToString(-n)

level_factor(level) ==
    CASE level = "VHQ" -> 280
      [] level = "HQ"  -> 640
      [] level = "MQ"  -> 1500
      [] level = "LQ"  -> 3200
      [] level = "VLQ" -> 4600
      [] OTHER         -> 1500

\* the second match of args_video; 0 stands for panic!(USAGE)
algo_factor(algo, level) ==
    CASE algo = "vp9" -> level_factor(level)
      [] algo = "av1" -> (level_factor(level) * 100) \div 70
      [] OTHER        -> 0

\* bitrate with the two products bitrate * 50 and bitrate * 145
I32Rates(bitrate, m50, m145) ==
    IF m50.panic \/ m145.panic THEN Panicked
    ELSE [panic |-> FALSE, bitrate |-> bitrate,
          minrate |-> I32Div(m50.v, 100), maxrate |-> I32Div(m145.v, 100)]

\* format!("{}", bitrate * 50 / 100) and bitrate * 145 / 100, in i32
I32RatesOf(bitrate, bld) ==
    I32Rates(bitrate, I32Mul(bitrate, 50, bld), I32Mul(bitrate, 145, bld))

\* uncompressed_bitrate / compression_factor, then the rates; a factor of 0
\* is the panic of the algo match
ArgsVideoRatesFrom(u, cf, bld) ==
    IF cf = 0 \/ u.panic THEN Panicked ELSE I32RatesOf(I32Div(u.v, cf), bld)

\* bitrate, minrate and maxrate as args_video computes them
ArgsVideoRates(xres_, yres, fps_, algo, level, bld) ==
    ArgsVideoRatesFrom(I32MulThen(I32MulThen(I32Mul(24, fps_, bld), xres_, bld), yres, bld),
                       algo_factor(algo, level), bld)

\* the arguments args_video appends for the rates r
ArgsVideoArgs(r, xres_, algo) ==
    IF r.panic THEN Panicked
    ELSE [panic |-> FALSE,
          args |-> <<"-b:v", I32ToString(r.bitrate),
                     "-minrate", I32ToString(r.minrate),
                     "-maxrate", I32ToString(r.maxrate),
                     "-tile-columns", ToString(tile_columns(xres_)),
                     "-g", "240",
                     "-threads", ToString(16),
                     "-crf", ToString(31)>>
                   \o (CASE algo = "vp9" -> <<"-quality", "good", "-c:v", "libvpx-vp9">>
                         [] algo = "av1" -> <<"-c:v", "libaom-av1", "-strict", "-2">>)]

\* the arguments args_video appends to the command
args_video(xres_, yres, fps_, algo, level, bld) ==
    ArgsVideoArgs(ArgsVideoRates(xres_, yres, fps_, algo, level, bld), xres_, algo)

args_audio(level) ==
    LET bitrate == CASE level = "VHQ" -> 96
                     [] level = "HQ"  -> 64
                     [] level = "MQ"  -> 32
                     [] level = "LQ"  -> 24
                     [] level = "VLQ" -> 16
                     [] OTHER         -> 64
    IN  <<"-c:a", "libopus", "-b:a", ToString(bitrate) \o "k">>

args_shrink(size) == <<"-vf", "scale=" \o size>>

\* convert: let yres = xres * 5625 / 10000
YresOf(p) == IF p.panic THEN Panicked ELSE [panic |-> FALSE, v |-> I32Div(p.v, 10000)]
Yres(xres_, bld) == YresOf(I32Mul(xres_, 5625, bld))

\* get_fps: (numerator as f32 / denominator as f32).round() as i32, for
\* a non-negative numerator; a float-to-int cast saturates and sends NaN to 0
RoundFps(n, d) ==
    IF d = 0 THEN (IF n = 0 THEN 0 ELSE 2147483647)
    ELSE (2 * n + d) \div (2 * d)

-----------------------------------------------------------------------------
(* The parameter model on its own: the inputs are drawn in the initial     *)
(* state, one action applies video.rs to them and one applies main.rs.     *)

Scales == {<<1, 1>>, <<16, 9>>, <<640, 360>>, <<1280, 720>>, <<1920, 1080>>, <<3840, 2160>>}
FpsSet == {<<1, 1>>, <<30, 1>>, <<30000, 1001>>, <<60, 1>>}
Builds == {"debug", "release"}

NotComputed == [panic |-> FALSE, computed |-> FALSE]

\* the command-line spelling of a codec and of a quality tier
AlgoOf(codec) == IF codec = "Vp9" THEN "vp9" ELSE IF codec = "Av1" THEN "av1" ELSE "copy"
LevelOf(quality) ==
    CASE quality = "VeryHigh" -> "VHQ"
      [] quality = "High"     -> "HQ"
      [] quality = "Medium"   -> "MQ"
      [] quality = "Low"      -> "LQ"
      [] quality = "VeryLow"  -> "VLQ"

\* args_video as convert calls it: yres from xres, fps the rounded rate
ConvertRatesWith(y, xres_, fps_, algo, level, bld) ==
    IF y.panic THEN Panicked ELSE ArgsVideoRates(xres_, y.v, fps_, algo, level, bld)
ConvertRates(xres_, fps_, algo, level, bld) ==
    ConvertRatesWith(Yres(xres_, bld), xres_, fps_, algo, level, bld)

ParamIdle ==
    /\ pc = "idle" /\ build = "release" /\ argv = << >> /\ dir = << >>
    /\ input_file = "" /\ xres = 0 /\ fps = 0 /\ loudnorm = [measured |-> FALSE]
    /\ log = << >> /\ running = {} /\ returns = << >> /\ operation = << >>
    /\ entries = << >> /\ data = "" /\ parsed = << >>

ParamInit ==
    /\ ParamIdle
    /\ vin \in [video_codec : {"Vp9", "Av1"}, video_quality : Quality,
                scale : Scales, video_fps : FpsSet, build : Builds]
    /\ vout = [rs |-> NotComputed, main |-> NotComputed]

ComputeVideoRs ==
    /\ ~vout.rs.panic /\ "computed" \in DOMAIN vout.rs
    /\ vout' = [vout EXCEPT !.rs = VideoRates(vin, vin.build)]
    /\ UNCHANGED <<vin, pipeVars, parseVars>>

ComputeMainRs ==
    /\ ~vout.main.panic /\ "computed" \in DOMAIN vout.main
    /\ vout' = [vout EXCEPT !.main =
                   ConvertRates(vin.scale[1], RoundFps(vin.video_fps[1], vin.video_fps[2]),
                                AlgoOf(vin.video_codec), LevelOf(vin.video_quality),
                                vin.build)]
    /\ UNCHANGED <<vin, pipeVars, parseVars>>

ParamNext == ComputeVideoRs \/ ComputeMainRs

SpecParams == ParamInit /\ [][ParamNext]_vars

RsDone == ~vout.rs.panic /\ "bitrate" \in DOMAIN vout.rs
MainDone == ~vout.main.panic /\ "bitrate" \in DOMAIN vout.main

-----------------------------------------------------------------------------
(* Properties of the parameter model.                                      *)

\* video.rs rates of the current inputs with the codec or the tier replaced
RatesFor(codec, quality) ==
    VideoRates([vin EXCEPT !.video_codec = codec, !.video_quality = quality], vin.build)

\* the uncompressed bitrate of the current inputs as a mathematical integer
MathUncompressed ==
    BigDiv(BigMul(BigMul(BigMul(BigOf(24), BigOf(vin.scale[1])), BigOf(vin.scale[2])),
                  BigOf(vin.video_fps[1])),
           vin.video_fps[2])

\* the tier below q, and q itself for the lowest
NextLower(q) ==
    CASE q = "VeryHigh" -> "High"
      [] q = "High"     -> "Medium"
      [] q = "Medium"   -> "Low"
      [] q = "Low"      -> "VeryLow"
      [] q = "VeryLow"  -> "VeryLow"

\* floor(a * n / d) of a Big
BigScale(a, n, d) == BigDiv(BigMulSmall(a, n), d)

C8_BitrateStrictlyDecreasing ==
    RsDone /\ vin.video_quality # "VeryLow" =>
        LET lower == RatesFor(vin.video_codec, NextLower(vin.video_quality))
        IN  ~lower.panic => BigLt(lower.bitrate, vout.rs.bitrate)

\* C8 amended: the bitrate never increases from a tier to the tier below, and
\* strictly decreases whenever the uncompressed bitrate is at least 15019 bit/s;
\* below that, integer division lets neighbouring tiers coincide.
C8_BitrateNonIncreasingStrictWhenLarge ==
    RsDone /\ vin.video_quality # "VeryLow" =>
        LET lower == RatesFor(vin.video_codec, NextLower(vin.video_quality))
        IN  ~lower.panic =>
              /\ BigLe(lower.bitrate, vout.rs.bitrate)
              /\ BigLe(BigOf(15019), MathUncompressed) => BigLt(lower.bitrate, vout.rs.bitrate)

\* a state where a tier above the lowest was computed for a real frame size
C8_Witness ==
    /\ RsDone /\ vin.video_quality = "Low" /\ vin.scale = <<1920, 1080>>
    /\ BigLt(RatesFor(vin.video_codec, "VeryLow").bitrate, vout.rs.bitrate)

Is16x9 == vin.scale[1] * 9 = vin.scale[2] * 16

\* the bitrate of the current inputs as a mathematical integer
MathBitrate ==
    BigDiv(MathUncompressed, compression_factor(vin.video_codec, vin.video_quality))

\* C9 as stated: for 16:9 frames up to 3840 wide and rates up to 60/1 the
\* values handed to the encoder are the mathematical integers (no product
\* overflows or wraps), and minrate <= bitrate <= maxrate.
C9_RatesAreTheMathematicalIntegers ==
    /\ Is16x9 /\ "computed" \notin DOMAIN vout.rs =>
          /\ ~vout.rs.panic
          /\ vout.rs.bitrate = MathBitrate
          /\ vout.rs.minrate = BigScale(MathBitrate, 50, 100)
          /\ vout.rs.maxrate = BigScale(MathBitrate, 145, 100)
          /\ BigLe(vout.rs.minrate, vout.rs.bitrate)
          /\ BigLe(vout.rs.bitrate, vout.rs.maxrate)
    /\ Is16x9 /\ vin.video_fps[2] = 1 /\ "computed" \notin DOMAIN vout.main =>
          /\ ~vout.main.panic
          /\ vout.main.bitrate >= 0 /\ vout.main.minrate >= 0 /\ vout.main.maxrate >= 0
          /\ BigOf(vout.main.bitrate) = MathBitrate
          /\ BigOf(vout.main.minrate) = BigScale(MathBitrate, 50, 100)
          /\ BigOf(vout.main.maxrate) = BigScale(MathBitrate, 145, 100)

-----------------------------------------------------------------------------
(* loudnorm.rs / audio.rs: the loudness measurement.                       *)

LOUDNORM_LUFS == "-19"
LOUDNORM_TP == "-1.0"
LOUDNORM_LRA == "9"

Fields == <<"input_i", "input_lra", "input_tp", "input_thresh", "target_offset">>

\* the character at position i of s, "" past its end
Ch(s, i) == IF i >= 1 /\ i <= Len(s) THEN SubSeq(s, i, i) ELSE ""

\* \d
IsDigit(c) == c \in {"0", "1", "2", "3", "4", "5", "6", "7", "8", "9"}

\* the position after the longest run of digits that starts at i
RECURSIVE DigitsEnd(_, _)
DigitsEnd(s, i) == IF IsDigit(Ch(s, i)) THEN DigitsEnd(s, i + 1) ELSE i

\* whether the literal lit occurs in s at position i
StartsWith(s, i, lit) ==
    /\ i + Len(lit) - 1 <= Len(s)
    /\ SubSeq(s, i, i + Len(lit) - 1) = lit

\* The tail  (-?\d+.\d+)"  of the pattern, tried at position i: the position
\* of the last character of the capture group, or 0 when there is no match.
\* Leftmost-first matching: -? and both \d+ are greedy and give characters
\* back only when what follows cannot match; . is any character but \n.
MatchValue(s, i) ==
    LET a  == IF Ch(s, i) = "-" THEN i + 1 ELSE i
        e1 == DigitsEnd(s, a)
        \* with the first \d+ taking k digits, . is at a + k and the second
        \* \d+ must run up to a closing quote
        EndFor(k) ==
            LET x  == a + k
                e2 == DigitsEnd(s, x + 1)
            IN  IF /\ x <= Len(s) /\ Ch(s, x) # "\n"
                   /\ \E m \in 1..(e2 - x - 1) : Ch(s, x + m + 1) = "\""
                THEN x + (CHOOSE m \in 1..(e2 - x - 1) :
                            /\ Ch(s, x + m + 1) = "\""
                            /\ \A m2 \in (m + 1)..(e2 - x - 1) : Ch(s, x + m2 + 1) # "\"")
                ELSE 0
        ks == {k \in 1..(e1 - a) : EndFor(k) # 0}
    IN  IF ks = {} THEN 0
        ELSE EndFor(CHOOSE k \in ks : \A k2 \in ks : k2 <= k)

\* the positions of s that hold a double quote, where a match can start
QuotePositions(s) == {p \in 1..Len(s) : Ch(s, p) = "\""}

\* the positions of s at which  "<field>" : "(-?\d+.\d+)"  matches
MatchStarts(s, quotes, prefix) ==
    {p \in quotes : /\ StartsWith(s, p, prefix)
                    /\ MatchValue(s, p + Len(prefix)) # 0}

\* captures_iter leaving the loop at its first capture
FirstCapture(s, prefix, starts, pos, last) ==
    LET ahead == {p \in starts : p >= pos}
    IN  IF ahead = {} THEN last
        ELSE LET p == CHOOSE q \in ahead : \A r \in ahead : q <= r
             IN  SubSeq(s, p + Len(prefix), MatchValue(s, p + Len(prefix)))

\* captures_iter over s from pos on, each capture overwriting the last:
\* successive non-overlapping matches, leftmost first
RECURSIVE LastCapture(_, _, _, _, _)
LastCapture(s, prefix, starts, pos, last) ==
    LET ahead == {p \in starts : p >= pos}
    IN  IF ahead = {} THEN last
        ELSE LET p    == CHOOSE q \in ahead : \A r \in ahead : q <= r
                 from == p + Len(prefix)
                 to   == MatchValue(s, from)
             IN  LastCapture(s, prefix, starts, to + 2, SubSeq(s, from, to))

\* one field of from_analyze_data: the regex loop, "" when it never matched
ExtractField(s, quotes, field) ==
    LET prefix == "\"" \o field \o "\" : \""
    IN  LastCapture(s, prefix, MatchStarts(s, quotes, prefix), 1, "")

\* from_analyze_data: the five loops in order, each followed by its
\* "Did not find" panic
from_analyze_data(s) ==
    LET quotes == QuotePositions(s)
        v == [i \in 1..5 |-> ExtractField(s, quotes, Fields[i])]
        missing == {i \in 1..5 : v[i] = ""}
    IN  IF missing # {}
        THEN [panic |-> TRUE,
              field |-> Fields[CHOOSE i \in missing : \A j \in missing : i <= j]]
        ELSE [panic |-> FALSE, input_i |-> v[1], input_lra |-> v[2], input_tp |-> v[3],
              input_thresh |-> v[4], target_offset |-> v[5]]

analyze_af ==
    "loudnorm=I=" \o LOUDNORM_LUFS \o ":TP=" \o LOUDNORM_TP \o ":LRA=" \o LOUDNORM_LRA
        \o ":print_format=json"

\* convert_af with the measured LRA and TP strings in each other's place
convert_af_swapped(l) ==
    "loudnorm=I=" \o LOUDNORM_LUFS \o ":TP=" \o LOUDNORM_TP \o ":LRA=" \o LOUDNORM_LRA
        \o ":measured_I=" \o l.input_i
        \o ":measured_LRA=" \o l.input_tp
        \o ":measured_TP=" \o l.input_lra
        \o ":measured_thresh=" \o l.input_thresh
        \o ":offset=" \o l.target_offset
        \o ":linear=true:print_format=summary"

convert_af(l) ==
    "loudnorm=I=" \o LOUDNORM_LUFS \o ":TP=" \o LOUDNORM_TP \o ":LRA=" \o LOUDNORM_LRA
        \o ":measured_I=" \o l.input_i
        \o ":measured_LRA=" \o l.input_lra
        \o ":measured_TP=" \o l.input_tp
        \o ":measured_thresh=" \o l.input_thresh
        \o ":offset=" \o l.target_offset
        \o ":linear=true:print_format=summary"

-----------------------------------------------------------------------------
(* The parser on its own: the analyzer prints key/value lines in any       *)
(* order, any key any number of times, then the text is parsed.            *)

MaxEntries == 6

\* decimal strings as the loudnorm filter prints them
Values == <<"-23.1", "7.2", "-1.3", "-33.5", "0.4", "12.34", "-0.05", "100.0">>

\* the value printed on the n-th line
ValueAt(n) == Values[((n - 1) % Len(Values)) + 1]

DiagHeader == "[Parsed_loudnorm_0]\n{\n"
DiagFooter == "\t\"output_i\" : \"-19.00\"\n}\n"

\* one line of the JSON-like block
EntryLine(e) == "\t\"" \o e.key \o "\" : \"" \o e.value \o "\",\n"

NotParsed == [panic |-> FALSE, parsed |-> FALSE]

ParseIdle ==
    /\ pc = "idle" /\ build = "release" /\ argv = << >> /\ dir = << >>
    /\ input_file = "" /\ xres = 0 /\ fps = 0 /\ loudnorm = [measured |-> FALSE]
    /\ log = << >> /\ running = {} /\ returns = << >> /\ operation = << >>
    /\ vin = << >> /\ vout = << >>

ParseInit ==
    /\ ParseIdle
    /\ entries = << >>
    /\ data = DiagHeader
    /\ parsed = NotParsed

\* the analyzer prints one more line
PrintEntry ==
    /\ parsed = NotParsed
    /\ Len(entries) < MaxEntries
    /\ \E i \in 1..5 :
          LET e == [key |-> Fields[i], value |-> ValueAt(Len(entries) + 1)]
          IN  /\ entries' = Append(entries, e)
              /\ data' = data \o EntryLine(e)
    /\ UNCHANGED <<parsed, pipeVars, paramVars>>

\* the analyzer closes the block and exits; the text is parsed
ParseData ==
    /\ parsed = NotParsed
    /\ data' = data \o DiagFooter
    /\ parsed' = from_analyze_data(data')
    /\ UNCHANGED <<entries, pipeVars, paramVars>>

ParseNext == PrintEntry \/ ParseData

SpecParse == ParseInit /\ [][ParseNext]_vars

\* the value of the last line of es that carries key; "" when there is none
RECURSIVE LastValue(_, _)
LastValue(es, key) ==
    IF es = << >> THEN ""
    ELSE IF es[Len(es)].key = key THEN es[Len(es)].value
    ELSE LastValue(SubSeq(es, 1, Len(es) - 1), key)

HasAllFields(es) == \A i \in 1..5 : \E n \in 1..Len(es) : es[n].key = Fields[i]

ParsedDone == parsed # NotParsed

\* C6: for text that holds the five keys, in any order and with any key
\* repeated, from_analyze_data returns for every field the value of the last
\* occurrence of its key.
C6_LastOccurrenceWins ==
    ParsedDone /\ HasAllFields(entries) =>
        /\ ~parsed.panic
        /\ parsed.input_i = LastValue(entries, "input_i")
        /\ parsed.input_lra = LastValue(entries, "input_lra")
        /\ parsed.input_tp = LastValue(entries, "input_tp")
        /\ parsed.input_thresh = LastValue(entries, "input_thresh")
        /\ parsed.target_offset = LastValue(entries, "target_offset")

\* a parsed text in which input_tp was printed twice, before and after the
\* other keys, with different values
C6_Witness ==
    /\ ParsedDone /\ HasAllFields(entries) /\ Len(entries) = 6
    /\ entries[1].key = "input_tp" /\ entries[6].key = "input_tp"
    /\ entries[2].key = "target_offset"
    /\ ~parsed.panic /\ parsed.input_tp = entries[6].value
    /\ entries[1].value # entries[6].value

-----------------------------------------------------------------------------
(* String helpers for main.rs.                                             *)

IsSpace(c) == c \in {" ", "\n", "\t", "\r"}

\* str::trim
Trim(s) ==
    LET keep == {p \in 1..Len(s) : ~IsSpace(Ch(s, p))}
    IN  IF keep = {} THEN ""
        ELSE SubSeq(s, CHOOSE p \in keep : \A q \in keep : p <= q,
                       CHOOSE p \in keep : \A q \in keep : q <= p)

\* str::find(c): the first position of c in s, 0 for None
Find(s, c) ==
    LET at == {p \in 1..Len(s) : Ch(s, p) = c}
    IN  IF at = {} THEN 0 ELSE CHOOSE p \in at : \A q \in at : p <= q

\* the last position of c in s, 0 for none
FindLast(s, c) ==
    LET at == {p \in 1..Len(s) : Ch(s, p) = c}
    IN  IF at = {} THEN 0 ELSE CHOOSE p \in at : \A q \in at : q <= p

DigitValue(c) ==
    CASE c = "0" -> 0 [] c = "1" -> 1 [] c = "2" -> 2 [] c = "3" -> 3 [] c = "4" -> 4
      [] c = "5" -> 5 [] c = "6" -> 6 [] c = "7" -> 7 [] c = "8" -> 8 [] c = "9" -> 9

\* the number a string of digits spells, as a Big
RECURSIVE DigitsToBig(_)
DigitsToBig(s) ==
    IF s = "" THEN << >>
    ELSE BigAdd(BigMulSmall(DigitsToBig(SubSeq(s, 1, Len(s) - 1)), 10),
                BigOf(DigitValue(Ch(s, Len(s)))))

\* the i32 of magnitude p, negative when neg; Err out of range
I32OfDigits(neg, p) ==
    IF FitsI32(neg /\ p # << >>, p) THEN [ok |-> TRUE, v |-> I32Wrap(neg /\ p # << >>, p)]
    ELSE [ok |-> FALSE]

\* the digits of a number after its optional sign
ParseUnsigned(neg, digits) ==
    IF digits = "" \/ \E i \in 1..Len(digits) : ~IsDigit(Ch(digits, i))
    THEN [ok |-> FALSE]
    ELSE I32OfDigits(neg, DigitsToBig(digits))

\* str::parse::<i32>: an optional sign, then one or more digits, in range
ParseI32(s) ==
    IF Ch(s, 1) \in {"-", "+"} THEN ParseUnsigned(Ch(s, 1) = "-", SubSeq(s, 2, Len(s)))
    ELSE ParseUnsigned(FALSE, s)

\* str::replace(from, to) for a one-character pattern
RECURSIVE ReplaceChar(_, _, _)
ReplaceChar(s, from, to) ==
    IF s = "" THEN ""
    ELSE (IF Ch(s, 1) = from THEN to ELSE Ch(s, 1))
             \o ReplaceChar(SubSeq(s, 2, Len(s)), from, to)

\* Path::extension: the part of the file name after its last dot; None when
\* the name has no dot or only a leading one
Extension(path) ==
    LET name == SubSeq(path, FindLast(path, "/") + 1, Len(path))
        dot  == FindLast(name, ".")
    IN  IF dot <= 1 THEN [some |-> FALSE]
        ELSE [some |-> TRUE, ext |-> SubSeq(name, dot + 1, Len(name))]

-----------------------------------------------------------------------------
(* main.rs: the commands.                                                  *)

CPULIMIT_PATH == "/usr/bin/cpulimit"
FFMPEG_PATH == "/usr/bin/ffmpeg"
FFPROBE_PATH == "/usr/bin/ffprobe"
CPULIMIT == "1200"

\* file names in byte order, the order PathBuf compares in
PathOrder == <<"./README", "./a.mp4", "./b.mp4", "./notes.txt">>
PathRank(f) == CHOOSE i \in 1..Len(PathOrder) : PathOrder[i] = f

\* Vec::sort_unstable on paths
RECURSIVE SortPaths(_)
SortPaths(fs) ==
    IF fs = << >> THEN << >>
    ELSE LET m == CHOOSE i \in 1..Len(fs) : \A j \in 1..Len(fs) : PathRank(fs[i]) <= PathRank(fs[j])
         IN  <<fs[m]>> \o SortPaths(SubSeq(fs, 1, m - 1) \o SubSeq(fs, m + 1, Len(fs)))

\* cwd_files_with_extension: the regular files of the directory with the
\* extension, sorted; a file with no extension panics in unwrap
cwd_files_with_extension(entries_, ext) ==
    IF \E i \in 1..Len(entries_) : ~Extension(entries_[i]).some THEN Panicked
    ELSE [panic |-> FALSE,
          files |-> SortPaths(SelectSeq(entries_, LAMBDA f : Extension(f).ext = ext))]

RECURSIVE ConcatInputs(_)
ConcatInputs(files) ==
    IF files = << >> THEN << >>
    ELSE ConcatInputs(SubSeq(files, 1, Len(files) - 1)) \o <<"-i", files[Len(files)]>>

RECURSIVE ConcatPads(_)
ConcatPads(n) ==
    IF n = 0 THEN ""
    ELSE ConcatPads(n - 1) \o "[" \o ToString(n - 1) \o ":v:0][" \o ToString(n - 1) \o ":a:0]"

\* the command cat_files runs
CatFilesCommand(files, outputname) ==
    [stage |-> "concat", program |-> FFMPEG_PATH,
     args |-> ConcatInputs(files) \o
              <<"-filter_complex",
                ConcatPads(Len(files)) \o "concat=n=" \o ToString(Len(files)) \o ":v=1:a=1[outv][outa]",
                "-map", "[outv]", "-map", "[outa]", outputname>>]

\* the command get_fps runs
GetFpsCommand(input) ==
    [stage |-> "probe", program |-> FFPROBE_PATH,
     args |-> <<"-v", "0", "-of", "csv=p=0", "-select_streams", "v:0",
                "-show_entries", "stream=r_frame_rate", input>>]

\* the ratio of the two parsed numbers, rounded; a parse error panics in unwrap
FpsOf(numerator, denominator) ==
    IF ~numerator.ok \/ ~denominator.ok THEN Panicked
    ELSE [panic |-> FALSE, v |-> RoundFps(numerator.v, denominator.v)]

\* fpsstr.find('/'): 30 for None, else the two sides of the slash
FpsAt(fpsstr, i) ==
    IF i = 0 THEN [panic |-> FALSE, v |-> 30]
    ELSE FpsOf(ParseI32(SubSeq(fpsstr, 1, i - 1)), ParseI32(SubSeq(fpsstr, i + 1, Len(fpsstr))))

FpsOfTrimmed(fpsstr) == FpsAt(fpsstr, Find(fpsstr, "/"))

\* get_fps on the captured stdout
ParseFps(stdout) == FpsOfTrimmed(Trim(stdout))

\* the command Loudnorm::from_analyze runs
FromAnalyzeCommand(input) ==
    [stage |-> "analyze", program |-> CPULIMIT_PATH,
     args |-> <<"-l", CPULIMIT, FFMPEG_PATH, "-y", "-i", input,
                "-af", analyze_af, "-f", "null", "-">>]

\* the arguments both passes share: the scale filter, the video and the
\* audio arguments
EncodeArgs(video, xres_, yres, level) ==
    IF video.panic THEN Panicked
    ELSE [panic |-> FALSE,
          args |-> args_shrink(I32ToString(xres_) \o "x" \o I32ToString(yres))
                   \o video.args \o args_audio(level)]

\* convert up to the point where the shared arguments are built
ConvertArgsWith(yres, xres_, fps_, algo, level, bld) ==
    IF yres.panic THEN Panicked
    ELSE EncodeArgs(args_video(xres_, yres.v, fps_, algo, level, bld), xres_, yres.v, level)

ConvertArgs(xres_, fps_, algo, level, bld) ==
    ConvertArgsWith(Yres(xres_, bld), xres_, fps_, algo, level, bld)

\* pass1speed, and pass2speed for a width
Pass1Speed == 4
Pass2Speed(xres_) == IF xres_ < 1024 THEN 1 ELSE 2

\* convert, pass 1: the command around the shared arguments e
Pass1CommandWith(e, input, outputfile) ==
    IF e.panic THEN Panicked
    ELSE [panic |-> FALSE, stage |-> "pass1", program |-> CPULIMIT_PATH,
          args |-> <<"-l", CPULIMIT, FFMPEG_PATH, "-i", input>>
                   \o e.args
                   \o <<"-pass", "1", "-speed", ToString(Pass1Speed), "-y", outputfile>>]

\* convert, pass 1: the command, or a panic while it is being built
Pass1Command(input, outputfile, xres_, fps_, algo, level, bld) ==
    Pass1CommandWith(ConvertArgs(xres_, fps_, algo, level, bld), input, outputfile)

\* convert, pass 2: the command around the shared arguments e
Pass2CommandWith(e, input, outputfile, l, xres_) ==
    IF e.panic THEN Panicked
    ELSE [panic |-> FALSE, stage |-> "pass2", program |-> CPULIMIT_PATH,
          args |-> <<"-l", CPULIMIT, FFMPEG_PATH, "-i", input, "-af", convert_af(l)>>
                   \o e.args
                   \o <<"-pass", "2", "-speed", ToString(Pass2Speed(xres_)), "-y", outputfile>>]

\* convert, pass 2, reading the file it writes (outputfile for input)
Pass2CommandOnOutput(input, outputfile, l, xres_, fps_, algo, level, bld) ==
    Pass2CommandWith(ConvertArgs(xres_, fps_, algo, level, bld), outputfile, outputfile, l, xres_)

\* convert, pass 2
Pass2Command(input, outputfile, l, xres_, fps_, algo, level, bld) ==
    Pass2CommandWith(ConvertArgs(xres_, fps_, algo, level, bld), input, outputfile, l, xres_)

\* main: the output name made from the title
OutputName(title) == ReplaceChar(ReplaceChar(title, "/", "-"), " ", "_")

\* the command strip_metadata runs
StripMetadataCommand(input, output, title) ==
    [stage |-> "strip", program |-> FFMPEG_PATH,
     args |-> <<"-y", "-i", input, "-c", "copy", "-map_metadata", "-1",
                "-metadata", "title=" \o title, output>>]

-----------------------------------------------------------------------------
(* main.rs: the pipeline.  The thread of control blocks in                 *)
(* Command::output() at each external invocation; one action is the code   *)
(* from one such return to the next call.                                  *)

ExitStatuses == {0, 1}

Argvs ==
    {<<i, "My a/b", x, a, l>> : i \in {".", "in.mp4"}, x \in {"640", "1920", "wide"},
                                 a \in {"vp9", "av1", "h264"}, l \in {"HQ", "VLQ", "best"}}
        \cup {<<"in.mp4", "My a/b", "640", "vp9">>}

Dirs == {<<"./b.mp4", "./a.mp4">>, <<"./b.mp4", "./notes.txt", "./a.mp4">>, <<"./a.mp4", "./README">>,
         <<"./notes.txt", "./a.mp4">>}

\* what ffprobe can print for r_frame_rate
ProbeOutputs == {"30/1\n", "60/1\n", "30000/1001\n", "\n", "N/A\n"}

\* what the analyzer can print: one block, the block twice with different
\* values, a block without target_offset
AnalyzeEntries ==
    {<<[key |-> "input_i", value |-> "-23.1"], [key |-> "input_tp", value |-> "-1.3"],
       [key |-> "input_lra", value |-> "7.2"], [key |-> "input_thresh", value |-> "-33.5"],
       [key |-> "target_offset", value |-> "0.4"]>>,
     <<[key |-> "input_i", value |-> "-70.0"], [key |-> "input_tp", value |-> "-9.9"],
       [key |-> "input_lra", value |-> "0.0"], [key |-> "input_thresh", value |-> "-80.0"],
       [key |-> "target_offset", value |-> "51.0"],
       [key |-> "input_i", value |-> "-27.61"], [key |-> "input_tp", value |-> "-4.47"],
       [key |-> "input_lra", value |-> "18.06"], [key |-> "input_thresh", value |-> "-39.20"],
       [key |-> "target_offset", value |-> "0.58"]>>,
     <<[key |-> "input_i", value |-> "-23.1"], [key |-> "input_tp", value |-> "-1.3"],
       [key |-> "input_lra", value |-> "7.2"], [key |-> "input_thresh", value |-> "-33.5"]>>}

RECURSIVE EntryLines(_)
EntryLines(es) ==
    IF es = << >> THEN "" ELSE EntryLines(SubSeq(es, 1, Len(es) - 1)) \o EntryLine(es[Len(es)])

DiagText(es) == DiagHeader \o EntryLines(es) \o DiagFooter

AnalyzeOutputs == {DiagText(es) : es \in AnalyzeEntries}

NoLoudnorm == [measured |-> FALSE]

\* a command as it is run
Cmd(c) == [stage |-> c.stage, program |-> c.program, args |-> c.args]

Init ==
    /\ pc = "main"
    /\ build \in Builds
    /\ argv \in Argvs
    /\ dir \in Dirs
    /\ input_file = "" /\ xres = 0 /\ fps = 0
    /\ loudnorm = NoLoudnorm
    /\ log = << >> /\ running = {} /\ returns = << >>
    /\ operation = << >>
    /\ entries = << >> /\ data = "" /\ parsed = << >>
    /\ vin = << >> /\ vout = << >>

\* main, lines 41-60, with cat_files run without waiting for it (spawn for
\* output): the probe is issued while the concatenation is in flight
MainStartNoWait ==
    /\ pc = "main"
    /\ Len(argv) >= 5 /\ ParseI32(argv[3]).ok /\ argv[1] = "."
    /\ ~cwd_files_with_extension(dir, "mp4").panic
    /\ xres' = ParseI32(argv[3]).v
    /\ input_file' = "concatenated.mp4"
    /\ log' = log \o <<CatFilesCommand(cwd_files_with_extension(dir, "mp4").files,
                                       "concatenated.mp4"),
                       GetFpsCommand("concatenated.mp4")>>
    /\ running' = running \cup {Len(log) + 1, Len(log) + 2}
    /\ pc' = "get_fps"
    /\ UNCHANGED <<build, argv, dir, fps, loudnorm, returns, operation, parseVars, paramVars>>

\* main, lines 41-60: the arguments; then either cat_files up to its
\* invocation or get_fps up to its invocation
MainStart ==
    /\ pc = "main"
    /\ LET x == ParseI32(argv[3])
           files == cwd_files_with_extension(dir, "mp4")
           panic == \/ Len(argv) < 5
                    \/ ~x.ok
                    \/ argv[1] = "." /\ files.panic
       IN  /\ pc' = IF panic THEN "failed"
                    ELSE IF argv[1] = "." THEN "cat_files" ELSE "get_fps"
           /\ xres' = IF panic THEN xres ELSE x.v
           /\ input_file' = IF panic THEN input_file ELSE argv[1]
           /\ log' = IF panic THEN log
                     ELSE IF argv[1] = "."
                     THEN Append(log, CatFilesCommand(files.files, "concatenated.mp4"))
                     ELSE Append(log, GetFpsCommand(argv[1]))
           /\ running' = IF panic THEN running ELSE running \cup {Len(log) + 1}
    /\ UNCHANGED <<build, argv, dir, fps, loudnorm, returns, operation, parseVars, paramVars>>

\* cat_files returns; main goes on into get_fps up to its invocation
CatFilesReturn ==
    /\ pc = "cat_files"
    /\ \E status \in ExitStatuses :
          /\ returns' = Append(returns, [status |-> status, out |-> ""])
          /\ pc' = IF status # 0 THEN "failed" ELSE "get_fps"
          /\ input_file' = IF status # 0 THEN input_file ELSE "concatenated.mp4"
          /\ log' = IF status # 0 THEN log ELSE Append(log, GetFpsCommand("concatenated.mp4"))
          /\ running' = IF status # 0 THEN running \ {Len(log)}
                        ELSE (running \ {Len(log)}) \cup {Len(log) + 1}
    /\ UNCHANGED <<build, argv, dir, xres, fps, loudnorm, operation, parseVars, paramVars>>

\* what main does with the outcome f of get_fps
GetFpsStep(status, stdout, f) ==
    /\ returns' = Append(returns, [status |-> status, out |-> stdout])
    /\ pc' = IF f.panic THEN "failed" ELSE "from_analyze"
    /\ fps' = IF f.panic THEN fps ELSE f.v
    /\ log' = IF f.panic THEN log ELSE Append(log, FromAnalyzeCommand(input_file))
    /\ running' = IF f.panic THEN running \ {Len(log)}
                  ELSE (running \ {Len(log)}) \cup {Len(log) + 1}

\* ffprobe returns; get_fps parses its output and main goes on into
\* Loudnorm::from_analyze up to its invocation
GetFpsReturn ==
    /\ pc = "get_fps"
    /\ \E status \in ExitStatuses :
       \E stdout \in IF status = 0 THEN ProbeOutputs ELSE {""} :
          GetFpsStep(status, stdout, IF status = 0 THEN ParseFps(stdout) ELSE Panicked)
    /\ UNCHANGED <<build, argv, dir, input_file, xres, loudnorm, operation, parseVars, paramVars>>

\* what main does with the outcome l of from_analyze and the pass-1 command
\* c that convert builds next
FromAnalyzeStep(status, stderr, l, c) ==
    /\ returns' = Append(returns, [status |-> status, out |-> stderr])
    /\ loudnorm' = IF l.panic THEN loudnorm ELSE l
    /\ pc' = IF l.panic \/ c.panic THEN "failed" ELSE "pass1"
    /\ log' = IF l.panic \/ c.panic THEN log ELSE Append(log, Cmd(c))
    /\ running' = IF l.panic \/ c.panic THEN running \ {Len(log)}
                  ELSE (running \ {Len(log)}) \cup {Len(log) + 1}

\* the analysis returns; from_analyze parses its stderr and main goes on
\* into convert up to the pass-1 invocation
FromAnalyzeReturn ==
    /\ pc = "from_analyze"
    /\ \E status \in ExitStatuses :
       \E stderr \in IF status = 0 THEN AnalyzeOutputs ELSE {""} :
          FromAnalyzeStep(status, stderr,
                          IF status = 0 THEN from_analyze_data(stderr) ELSE Panicked,
                          Pass1Command(input_file, "tmp1.webm", xres, fps, argv[4], argv[5], build))
    /\ UNCHANGED <<build, argv, dir, input_file, xres, fps, operation, parseVars, paramVars>>

\* what convert does when pass 1 has returned: panic stands for a failed
\* pass 1 or a panic while the pass-2 command c is built
Pass1Step(status, panic, c) ==
    /\ returns' = Append(returns, [status |-> status, out |-> ""])
    /\ pc' = IF panic THEN "failed" ELSE "pass2"
    /\ log' = IF panic THEN log ELSE Append(log, Cmd(c))
    /\ running' = IF panic THEN running \ {Len(log)}
                  ELSE (running \ {Len(log)}) \cup {Len(log) + 1}

\* the pass-2 command c built after pass 1 returned with status
Pass1Checked(status, c) == Pass1Step(status, status # 0 \/ c.panic, c)

\* the same with the exit status of pass 1 not looked at
Pass1Unchecked(status, c) == Pass1Step(status, c.panic, c)

\* pass 1 returns and its exit status is not looked at
Pass1ReturnUnchecked ==
    /\ pc = "pass1"
    /\ \E status \in ExitStatuses :
          Pass1Unchecked(status, Pass2Command(input_file, "tmp1.webm", loudnorm, xres, fps,
                                              argv[4], argv[5], build))
    /\ UNCHANGED <<build, argv, dir, input_file, xres, fps, loudnorm, operation, parseVars, paramVars>>

\* pass 1 returns; convert goes on up to the pass-2 invocation
Pass1Return ==
    /\ pc = "pass1"
    /\ \E status \in ExitStatuses :
          Pass1Checked(status, Pass2Command(input_file, "tmp1.webm", loudnorm, xres, fps,
                                            argv[4], argv[5], build))
    /\ UNCHANGED <<build, argv, dir, input_file, xres, fps, loudnorm, operation, parseVars, paramVars>>

\* pass 2 returns; convert returns and main goes on into strip_metadata up
\* to its invocation
Pass2Return ==
    /\ pc = "pass2"
    /\ \E status \in ExitStatuses :
          /\ returns' = Append(returns, [status |-> status, out |-> ""])
          /\ pc' = IF status # 0 THEN "failed" ELSE "strip_metadata"
          /\ log' = IF status # 0 THEN log
                    ELSE Append(log, StripMetadataCommand("tmp1.webm",
                                         OutputName(argv[2]) \o ".webm", argv[2]))
          /\ running' = IF status # 0 THEN running \ {Len(log)}
                        ELSE (running \ {Len(log)}) \cup {Len(log) + 1}
    /\ UNCHANGED <<build, argv, dir, input_file, xres, fps, loudnorm, operation, parseVars, paramVars>>

\* the strip returns; main returns
StripMetadataReturn ==
    /\ pc = "strip_metadata"
    /\ \E status \in ExitStatuses :
          /\ returns' = Append(returns, [status |-> status, out |-> ""])
          /\ pc' = IF status # 0 THEN "failed" ELSE "done"
          /\ running' = running \ {Len(log)}
    /\ UNCHANGED <<build, argv, dir, input_file, xres, fps, loudnorm, log, operation, parseVars, paramVars>>

Next ==
    \/ MainStart
    \/ CatFilesReturn
    \/ GetFpsReturn
    \/ FromAnalyzeReturn
    \/ Pass1Return
    \/ Pass2Return
    \/ StripMetadataReturn

Spec == Init /\ [][Next]_vars

-----------------------------------------------------------------------------
(* Properties of the pipeline of main.rs.                                  *)

\* the position of a stage along the run
StageRank(stage) ==
    CASE stage = "concat"  -> 1
      [] stage = "probe"   -> 2
      [] stage = "analyze" -> 3
      [] stage = "pass1"   -> 4
      [] stage = "pass2"   -> 5
      [] stage = "strip"   -> 6

\* the index of the stage's invocation in the log, 0 when it was not issued
LogIndex(stage) ==
    IF \E j \in 1..Len(log) : log[j].stage = stage
    THEN CHOOSE j \in 1..Len(log) :
            log[j].stage = stage /\ \A k \in 1..Len(log) : log[k].stage = stage => j <= k
    ELSE 0

\* the argument that follows the first occurrence of flag, "" without one
ArgAfter(args, flag) ==
    IF \E i \in 1..(Len(args) - 1) : args[i] = flag
    THEN args[1 + CHOOSE i \in 1..(Len(args) - 1) :
                     args[i] = flag /\ \A k \in 1..(Len(args) - 1) : args[k] = flag => i <= k]
    ELSE ""

HasArg(args, flag) == \E i \in 1..Len(args) : args[i] = flag

\* args without the given flags and the value after each
RECURSIVE WithoutOptions(_, _)
WithoutOptions(args, flags) ==
    IF args = << >> THEN << >>
    ELSE IF Head(args) \in flags THEN WithoutOptions(SubSeq(args, 3, Len(args)), flags)
    ELSE <<Head(args)>> \o WithoutOptions(Tail(args), flags)

\* the pieces of s between the separators at the positions seps
RECURSIVE SplitFrom(_, _, _)
SplitFrom(s, seps, from) ==
    IF \A i \in seps : i < from THEN <<SubSeq(s, from, Len(s))>>
    ELSE <<SubSeq(s, from, (CHOOSE i \in seps : i >= from /\ \A j \in seps : j >= from => i <= j) - 1)>>
         \o SplitFrom(s, seps, (CHOOSE i \in seps : i >= from /\ \A j \in seps : j >= from => i <= j) + 1)

\* the options of a loudnorm filter descriptor, in order
FilterOptions(af) ==
    IF StartsWith(af, 1, "loudnorm=")
    THEN SplitFrom(af, {i \in 10..Len(af) : Ch(af, i) = ":"}, 10)
    ELSE << >>

\* C1: the invocations are issued in the order concatenation (only when the
\* input is "."), frame-rate probe, loudness measurement, pass 1, pass 2,
\* metadata strip; each one is issued only after the one before it has
\* returned exit status 0, and at most one invocation is in flight.
C1_StagesInOrderOneAtATime ==
    /\ Cardinality(running) <= 1
    /\ running \subseteq {Len(log)}
    /\ Len(log) = Len(returns) + Cardinality(running)
    /\ \A i \in 1..Len(log) : \A j \in 1..Len(log) :
          i < j => StageRank(log[i].stage) < StageRank(log[j].stage)
    /\ \A j \in 2..Len(log) :
          /\ returns[j - 1].status = 0
          /\ StageRank(log[j].stage) = StageRank(log[j - 1].stage) + 1
    /\ Len(log) >= 1 => log[1].stage = IF argv[1] = "." THEN "concat" ELSE "probe"

\* a run over a directory that went through all six invocations
C1_Witness ==
    /\ pc = "done"
    /\ Len(log) = 6
    /\ log[1].stage = "concat" /\ log[3].stage = "analyze" /\ log[6].stage = "strip"

\* C2: a non-zero exit status of any invocation ends the run in "failed":
\* it is the last invocation of the run, nothing is in flight after it, no
\* stage is invoked twice, and "done" is reached only when every invocation,
\* the metadata strip last, returned 0.
C2_NonZeroExitIsFatal ==
    /\ \A j \in 1..Len(returns) :
          returns[j].status # 0 =>
             /\ pc = "failed"
             /\ j = Len(returns)
             /\ Len(log) = j
             /\ running = {}
    /\ \A i \in 1..Len(log) : \A j \in 1..Len(log) :
          i # j => log[i].stage # log[j].stage
    /\ pc = "done" =>
          /\ Len(log) = Len(returns)
          /\ \A j \in 1..Len(returns) : returns[j].status = 0
          /\ log[Len(log)].stage = "strip"

\* pass 1 returned a non-zero exit status
C2_Witness ==
    /\ pc = "failed"
    /\ Len(returns) >= 3
    /\ returns[Len(returns)].status # 0
    /\ log[Len(log)].stage = "pass1"
    /\ Len(log) = Len(returns)

\* the analysis entries whose text the analyzer returned
ReturnedEntries(out) == CHOOSE es \in AnalyzeEntries : DiagText(es) = out

\* the measurement the returned text stands for: the last value of each key
ExpectedLoudnorm(es) ==
    [panic |-> FALSE,
     input_i |-> LastValue(es, "input_i"), input_lra |-> LastValue(es, "input_lra"),
     input_tp |-> LastValue(es, "input_tp"), input_thresh |-> LastValue(es, "input_thresh"),
     target_offset |-> LastValue(es, "target_offset")]

\* the invocations that carry measured values in an audio filter
Applying == {j \in 1..Len(log) : \E k \in 1..Len(log[j].args) :
                 \E o \in 1..Len(FilterOptions(log[j].args[k])) :
                       StartsWith(FilterOptions(log[j].args[k])[o], 1, "measured_")}

\* what C4 says of the pass-2 filter p2af, given the analysis filter anaf
\* and the measurement l
FilterEmbeds(p2af, anaf, l) ==
    /\ Len(FilterOptions(anaf)) = 4
    /\ FilterOptions(anaf)[1] = "I=-19"
    /\ FilterOptions(anaf)[2] = "TP=-1.0"
    /\ FilterOptions(anaf)[3] = "LRA=9"
    /\ FilterOptions(p2af) =
          SubSeq(FilterOptions(anaf), 1, 3)
          \o <<"measured_I=" \o l.input_i,
               "measured_LRA=" \o l.input_lra,
               "measured_TP=" \o l.input_tp,
               "measured_thresh=" \o l.input_thresh,
               "offset=" \o l.target_offset,
               "linear=true",
               "print_format=summary">>

\* C4: the measurement comes from one analysis invocation, stays what was
\* parsed from its output, and is applied in pass 2 only: the pass-2 audio
\* filter carries the five measured strings character for character, the
\* I/TP/LRA targets of the analysis filter, linear=true and
\* print_format=summary.
C4_MeasuredOnceAppliedOnceVerbatim ==
    /\ Cardinality({j \in 1..Len(log) : log[j].stage = "analyze"}) <= 1
    /\ loudnorm # NoLoudnorm =>
          /\ LogIndex("analyze") # 0
          /\ Len(returns) >= LogIndex("analyze")
          /\ returns[LogIndex("analyze")].status = 0
          /\ loudnorm = ExpectedLoudnorm(ReturnedEntries(returns[LogIndex("analyze")].out))
    /\ Applying \subseteq {LogIndex("pass2")}
    /\ LogIndex("pass2") # 0 =>
          /\ loudnorm # NoLoudnorm
          /\ Applying = {LogIndex("pass2")}
          /\ Cardinality({k \in 1..Len(log[LogIndex("pass2")].args) :
                             log[LogIndex("pass2")].args[k] = "-af"}) = 1
          /\ FilterEmbeds(ArgAfter(log[LogIndex("pass2")].args, "-af"),
                          ArgAfter(log[LogIndex("analyze")].args, "-af"),
                          loudnorm)

\* pass 2 was issued after an analysis that printed every key twice
C4_Witness ==
    /\ LogIndex("pass2") # 0
    /\ loudnorm # NoLoudnorm
    /\ loudnorm.input_i = "-27.61" /\ loudnorm.input_tp = "-4.47"
    /\ Len(ReturnedEntries(returns[LogIndex("analyze")].out)) = 10

\* the arguments that make up the video parameter set
VideoFlags == <<"-b:v", "-minrate", "-maxrate", "-tile-columns", "-g", "-threads", "-crf", "-c:v">>

\* C5: pass 1 is invoked before pass 2; both read the same input, carry the
\* same scale filter and the same video parameters, and their argument
\* lists are equal once the pass number, the speed and the audio filter are
\* taken out, which all three differ.
C5_PassesShareEverythingButPassSpeedFilter ==
    LogIndex("pass2") # 0 =>
       /\ LogIndex("pass1") # 0
       /\ LogIndex("pass1") < LogIndex("pass2")
       /\ ArgAfter(log[LogIndex("pass1")].args, "-i") = input_file
       /\ ArgAfter(log[LogIndex("pass2")].args, "-i") = input_file
       /\ ArgAfter(log[LogIndex("pass1")].args, "-vf") # ""
       /\ ArgAfter(log[LogIndex("pass1")].args, "-vf") = ArgAfter(log[LogIndex("pass2")].args, "-vf")
       /\ \A f \in 1..Len(VideoFlags) :
             /\ ArgAfter(log[LogIndex("pass1")].args, VideoFlags[f]) # ""
             /\ ArgAfter(log[LogIndex("pass1")].args, VideoFlags[f])
                   = ArgAfter(log[LogIndex("pass2")].args, VideoFlags[f])
       /\ log[LogIndex("pass1")].program = log[LogIndex("pass2")].program
       /\ WithoutOptions(log[LogIndex("pass1")].args, {"-pass", "-speed", "-af"})
             = WithoutOptions(log[LogIndex("pass2")].args, {"-pass", "-speed", "-af"})
       /\ ArgAfter(log[LogIndex("pass1")].args, "-pass") = "1"
       /\ ArgAfter(log[LogIndex("pass2")].args, "-pass") = "2"
       /\ ArgAfter(log[LogIndex("pass1")].args, "-speed")
             # ArgAfter(log[LogIndex("pass2")].args, "-speed")
       /\ ~HasArg(log[LogIndex("pass1")].args, "-af")
       /\ HasArg(log[LogIndex("pass2")].args, "-af")

\* both passes of an av1 run over a concatenated input were issued
C5_Witness ==
    /\ LogIndex("pass2") # 0
    /\ input_file = "concatenated.mp4"
    /\ ArgAfter(log[LogIndex("pass2")].args, "-c:v") = "libaom-av1"
    /\ ArgAfter(log[LogIndex("pass1")].args, "-speed") = "4"

\* the operation fields main.rs takes from the command line are all there
\* and recognised
ConfigValid ==
    /\ Len(argv) >= 5
    /\ ParseI32(argv[3]).ok
    /\ argv[4] \in {"vp9", "av1"}
    /\ argv[5] \in {"VHQ", "HQ", "MQ", "LQ", "VLQ"}

\* C10: with an invalid or missing field no external invocation is issued.
C10_InvalidConfigIssuesNothing == ~ConfigValid => log = << >>

-----------------------------------------------------------------------------
(* The pipeline over an Operation.  video.rs and audio.rs are written      *)
(* against crate::Operation, crate::Quality and crate::run_cmd; the        *)
(* orchestrator that owns them is not among the source files, so its       *)
(* stages follow the state machine of the specification (section 4.4):     *)
(* Init -> [Concatenating] -> Measuring -> EncodingPass1 -> EncodingPass2  *)
(* -> StrippingMetadata -> Done, Measuring skipped when normalization is   *)
(* off.  The encode arguments are those of vp9_or_av1 and opus.            *)

Operations ==
    [inputs : {<<"a.mp4">>, <<"a.mp4", "b.mp4">>},
     title : {"My a/b"},
     scale : {<<1280, 720>>},
     video_fps : {<<30, 1>>},
     normalize : BOOLEAN,
     video_quality : {"Medium"},
     video_codec : VCodec,
     audio_quality : {"High"}]

\* the file the stages after Concatenating work on
OpInput(op) == IF Len(op.inputs) > 1 THEN "concatenated.mp4" ELSE op.inputs[1]

\* the audio filter list with an apply filter on every pass-2 command,
\* whatever the flag says
OpAudioFiltersAlways(op, l, pass) ==
    IF pass = 2 /\ l # NoLoudnorm THEN <<"-af", convert_af(l)>>
    ELSE IF pass = 2 THEN <<"-af", analyze_af>>
    ELSE << >>

\* buildAudioFilters: the apply filter on pass 2 when normalization is
\* enabled, else empty
OpAudioFilters(op, l, pass) ==
    IF op.normalize /\ pass = 2 THEN <<"-af", convert_af(l)>> ELSE << >>

\* the scale filter in front of the computed video arguments v
OpFilteredVideo(v, op) ==
    IF v.panic THEN Panicked
    ELSE [panic |-> FALSE,
          args |-> <<"-vf", "scale=" \o ToString(op.scale[1]) \o "x" \o ToString(op.scale[2])>>
                   \o v.args]

\* the video arguments with the parameter model run for every codec
OpVideoArgsAlways(op, bld) == OpFilteredVideo(vp9_or_av1(op, bld), op)

\* the video arguments of an encode pass: a Copy stream is passed through,
\* with no filter and no computed parameter; any other codec gets the scale
\* filter and the arguments of vp9_or_av1
OpVideoArgs(op, bld) ==
    IF op.video_codec = "Copy" THEN [panic |-> FALSE, args |-> <<"-c:v", "copy">>]
    ELSE OpFilteredVideo(vp9_or_av1(op, bld), op)

\* an encode pass around the video arguments v
OpEncodeWith(v, op, l, pass) ==
    IF v.panic THEN Panicked
    ELSE [panic |-> FALSE, stage |-> IF pass = 1 THEN "pass1" ELSE "pass2",
          program |-> CPULIMIT_PATH,
          args |-> <<"-l", CPULIMIT, FFMPEG_PATH, "-i", OpInput(op)>>
                   \o OpAudioFilters(op, l, pass)
                   \o v.args \o opus(op.audio_quality)
                   \o <<"-pass", ToString(pass), "-y", "tmp1.webm">>]

OpEncodeCommand(op, l, pass, bld) == OpEncodeWith(OpVideoArgs(op, bld), op, l, pass)

OpIdle ==
    /\ argv = << >> /\ dir = << >> /\ input_file = "" /\ xres = 0 /\ fps = 0
    /\ entries = << >> /\ data = "" /\ parsed = << >>
    /\ vin = << >> /\ vout = << >>

OpInit ==
    /\ OpIdle
    /\ pc = "Init"
    /\ build \in Builds
    /\ operation \in Operations
    /\ loudnorm = NoLoudnorm
    /\ log = << >> /\ running = {} /\ returns = << >>

\* the next stage is entered with the command c
OpIssue(stage, c) ==
    /\ pc' = IF c.panic THEN "Failed" ELSE stage
    /\ log' = IF c.panic THEN log ELSE Append(log, Cmd(c))
    /\ running' = IF c.panic THEN running \ {Len(log)}
                  ELSE (running \ {Len(log)}) \cup {Len(log) + 1}

\* the run stops on a non-zero exit status
OpFail ==
    /\ pc' = "Failed"
    /\ log' = log
    /\ running' = running \ {Len(log)}

\* the stage after Concatenating: Measuring, or pass 1 when normalization
\* is off
OpAfterConcat ==
    IF operation.normalize
    THEN OpIssue("Measuring",
                 [panic |-> FALSE] @@ FromAnalyzeCommand(OpInput(operation)))
    ELSE OpIssue("EncodingPass1", OpEncodeCommand(operation, NoLoudnorm, 1, build))

OpStart ==
    /\ pc = "Init"
    /\ IF Len(operation.inputs) > 1
       THEN OpIssue("Concatenating",
                    [panic |-> FALSE] @@ CatFilesCommand(operation.inputs, "concatenated.mp4"))
       ELSE OpAfterConcat
    /\ UNCHANGED <<build, operation, loudnorm, returns, input_file, xres, fps, argv, dir,
                   parseVars, paramVars>>

OpConcatReturn ==
    /\ pc = "Concatenating"
    /\ \E status \in ExitStatuses :
          /\ returns' = Append(returns, [status |-> status, out |-> ""])
          /\ IF status # 0 THEN OpFail ELSE OpAfterConcat
    /\ UNCHANGED <<build, operation, loudnorm, input_file, xres, fps, argv, dir,
                   parseVars, paramVars>>

\* the outcome l of parsing the analyzer's text
OpMeasured(l) ==
    /\ loudnorm' = IF l.panic THEN loudnorm ELSE l
    /\ IF l.panic THEN OpFail
       ELSE OpIssue("EncodingPass1", OpEncodeCommand(operation, l, 1, build))

OpMeasureReturn ==
    /\ pc = "Measuring"
    /\ \E status \in ExitStatuses :
       \E stderr \in IF status = 0 THEN AnalyzeOutputs ELSE {""} :
          /\ returns' = Append(returns, [status |-> status, out |-> stderr])
          /\ OpMeasured(IF status = 0 THEN from_analyze_data(stderr) ELSE Panicked)
    /\ UNCHANGED <<build, operation, input_file, xres, fps, argv, dir, parseVars, paramVars>>

OpPass1Return ==
    /\ pc = "EncodingPass1"
    /\ \E status \in ExitStatuses :
          /\ returns' = Append(returns, [status |-> status, out |-> ""])
          /\ IF status # 0 THEN OpFail
             ELSE OpIssue("EncodingPass2", OpEncodeCommand(operation, loudnorm, 2, build))
    /\ UNCHANGED <<build, operation, loudnorm, input_file, xres, fps, argv, dir,
                   parseVars, paramVars>>

OpPass2Return ==
    /\ pc = "EncodingPass2"
    /\ \E status \in ExitStatuses :
          /\ returns' = Append(returns, [status |-> status, out |-> ""])
          /\ IF status # 0 THEN OpFail
             ELSE OpIssue("StrippingMetadata",
                          [panic |-> FALSE]
                          @@ StripMetadataCommand("tmp1.webm",
                                                  OutputName(operation.title) \o ".webm",
                                                  operation.title))
    /\ UNCHANGED <<build, operation, loudnorm, input_file, xres, fps, argv, dir,
                   parseVars, paramVars>>

OpStripReturn ==
    /\ pc = "StrippingMetadata"
    /\ \E status \in ExitStatuses :
          /\ returns' = Append(returns, [status |-> status, out |-> ""])
          /\ pc' = IF status # 0 THEN "Failed" ELSE "Done"
          /\ log' = log
          /\ running' = running \ {Len(log)}
    /\ UNCHANGED <<build, operation, loudnorm, input_file, xres, fps, argv, dir,
                   parseVars, paramVars>>

OpNext ==
    \/ OpStart
    \/ OpConcatReturn
    \/ OpMeasureReturn
    \/ OpPass1Return
    \/ OpPass2Return
    \/ OpStripReturn

SpecOp == OpInit /\ [][OpNext]_vars

RateFlags == <<"-b:v", "-minrate", "-maxrate", "-tile-columns", "-threads", "-crf">>

OutputTarget(c) == c.args[Len(c.args)]

\* C12: pass 1 carries no audio filter and does not write the file that
\* pass 2 produces as the real output.
C12_Pass1WritesNoRealOutput ==
    /\ LogIndex("pass1") # 0 => ~HasArg(log[LogIndex("pass1")].args, "-af")
    /\ LogIndex("pass2") # 0 =>
          OutputTarget(log[LogIndex("pass1")]) # OutputTarget(log[LogIndex("pass2")])

\* the inputs the command line declares: the .mp4 files of the directory
\* for ".", else the one file named
DeclaredInputs ==
    IF argv[1] = "."
    THEN {i \in 1..Len(dir) : Len(dir[i]) > 4 /\ SubSeq(dir[i], Len(dir[i]) - 3, Len(dir[i])) = ".mp4"}
    ELSE {1}

\* the stages after concatenation read the file named
LaterStagesRead(file) ==
    \A j \in 1..Len(log) :
       /\ log[j].stage \in {"analyze", "pass1", "pass2"} => ArgAfter(log[j].args, "-i") = file
       /\ log[j].stage = "probe" => OutputTarget(log[j]) = file

\* C13: concatenation is entered if and only if more than one input is
\* declared; it issues one invocation that writes one intermediate, which
\* every later stage reads; without it they read the single original input.
C13_ConcatIffSeveralInputs ==
    /\ LogIndex("concat") # 0 => Cardinality(DeclaredInputs) > 1
    /\ (Cardinality(DeclaredInputs) > 1 /\ Len(log) >= 1) => log[1].stage = "concat"
    /\ Cardinality({j \in 1..Len(log) : log[j].stage = "concat"}) <= 1
    /\ LogIndex("concat") # 0 =>
          /\ OutputTarget(log[LogIndex("concat")]) = "concatenated.mp4"
          /\ LaterStagesRead("concatenated.mp4")
    /\ (LogIndex("concat") = 0 /\ Len(argv) >= 1) => LaterStagesRead(argv[1])

====
